---- MODULE Spec2Model ----
(***************************************************************************)
(* The Watcher cycle of Aqar-bot (AqarBot.runCheck, index.js) together     *)
(* with the pieces of Scraper, Database and Notifier it calls.  One action *)
(* per await point of runCheck: between two awaits the JavaScript event    *)
(* loop may deliver another timer fire, so every await is a place where    *)
(* TimerFire can interleave.                                               *)
(***************************************************************************)
EXTENDS Integers, Sequences, FiniteSets, TLC

\* ------------------------------------------------------------------ bounds

\* Largest unit count any feed reports.
MaxCount == 2

\* The positive count of the plateau scenario [absent, 5, 5, 0, 5].
PlateauCount == 5

\* Store calls a store scenario makes.
MaxCalls == 2

\* The resource ids of the model: the sample keys of the Counters API payload.
ResourceIds == {506, 1004}

\* The resource the plateau script is about: the first of the payload.
ScriptedId == CHOOSE id \in ResourceIds : \A other \in ResourceIds : id <= other

\* ------------------------------------------------------------- data shapes

\* JavaScript null / a missing row / a missing map entry: the empty tuple;
\* a present value v is <<v>>.
Null == <<>>

Some(v) == <<v>>

\* attrs.name absent from the validation payload (project_name: attrs.name).
Undefined == "undefined"

\* The column value of a row that never got its metadata, or got undefined.
SqlNull == "NULL"

\* available_units_count INTEGER DEFAULT 0
DefaultCount == 0

Counts == 0 .. MaxCount

\* What the Validation Lookup (mainIntermediaryApi) can answer for one id:
\* the request throws, the body has no data, or a project's attributes.
LookupResponses ==
    {[t |-> "error", bookable |-> FALSE, units |-> 0, name |-> Undefined],
     [t |-> "nodata", bookable |-> FALSE, units |-> 0, name |-> Undefined]}
    \cup [t : {"ok"}, bookable : BOOLEAN, units : Counts,
          name : {"lookup-name", Undefined}]

\* One normalized record of the Search API (Metadata Feed): it declares no
\* units or some, bookable or not.
SearchRecords ==
    [project_name : {"search-name"}, bookable : BOOLEAN,
     available_units_count : {0, MaxCount}]

\* The Search API snapshots: for each id no record, or one record.
SearchMaps == [ResourceIds -> {Null} \cup {Some(r) : r \in SearchRecords}]

EmptySearchMap == [id \in ResourceIds |-> Null]

\* The ids of a set in ascending order: Object.entries lists integer keys
\* in ascending numeric order.
RECURSIVE SortedIds(_)
SortedIds(S) ==
    IF S = {} THEN <<>>
    ELSE LET m == CHOOSE x \in S : \A y \in S : x <= y
         IN  <<m>> \o SortedIds(S \ {m})

\* A raw value of buy_units_count: Some(n) for what parseInt reads as the
\* integer n, Null for what it reads as NaN (null, "", "n/a").
RawCountValues(signed) ==
    {Null} \cup {Some(n) : n \in Counts}
           \cup (IF signed THEN {Some(0 - 1)} ELSE {})

\* parseInt(count, 10) || 0: NaN and 0 are falsy and give 0, every other
\* integer is kept.
ParseCount(raw) ==
    IF raw = Null THEN 0 ELSE IF raw[1] = 0 THEN 0 ELSE raw[1]

\* Scraper._normalizeCountersResponse: the raw map buy_units_count (a
\* function from a set of ids to raw values) as a list of
\* {resource_id, count}.
NormalizeCountersResponse(raw) ==
    LET ids == SortedIds(DOMAIN raw)
    IN  [k \in 1 .. Len(ids) |->
            [resource_id |-> ids[k], count |-> ParseCount(raw[ids[k]])]]

\* The raw Counters API payloads the model draws from.
RawCounters(S) == UNION {[D -> S] : D \in SUBSET ResourceIds}

\* ---------------------------------------------------------- pure functions

\* reason: null
NoReason == "null"

\* A shouldNotify that calls every notified project restocked.
ShouldNotifyAlwaysRestocked(existingProject, apiProject) ==
    IF apiProject.available_units_count > 0
       /\ (existingProject = Null
           \/ existingProject[1].available_units_count = 0)
    THEN [shouldNotify |-> TRUE, reason |-> "restocked", previousUnits |-> 0]
    ELSE [shouldNotify |-> FALSE, reason |-> NoReason,
          previousUnits |-> IF existingProject = Null THEN 0
                            ELSE existingProject[1].available_units_count]

\* Database.shouldNotify (the version with one projects-per-API table),
\* existingProject being what its getProject(apiProject.id) resolved to.
ShouldNotify(existingProject, apiProject) ==
    IF existingProject = Null /\ apiProject.available_units_count > 0
    THEN [shouldNotify |-> TRUE, reason |-> "new_listing", previousUnits |-> 0]
    ELSE IF /\ existingProject # Null
            /\ existingProject[1].available_units_count = 0
            /\ apiProject.available_units_count > 0
         THEN [shouldNotify |-> TRUE, reason |-> "restocked",
               previousUnits |-> existingProject[1].available_units_count]
         ELSE [shouldNotify |-> FALSE, reason |-> NoReason,
               previousUnits |-> IF existingProject = Null THEN 0
                                 ELSE existingProject[1].available_units_count]

\* insertProject for a project without a row, updateProject for one with:
\* either way the row holds the API's name and count.
SaveProject(st, apiProject) ==
    [st EXCEPT ![apiProject.id] =
        Some([available_units_count |-> apiProject.available_units_count,
              project_name |-> apiProject.project_name])]

\* Database.getProject: row || null
GetProject(st, resourceId) == st[resourceId]

\* Database.ensureProjectExists: INSERT OR IGNORE (resource_id, last_updated);
\* a new row gets the count column's default and no metadata.
EnsureProjectExists(st, resourceId) ==
    [st EXCEPT ![resourceId] =
        IF @ = Null
        THEN Some([available_units_count |-> DefaultCount,
                   project_name |-> SqlNull])
        ELSE @]

\* A runWatcher that also stands back while the Indexer runs.
SkipWatcherShared(watching, indexing) == watching \/ indexing

\* runWatcher's guard: if (this.isWatching) return;
SkipWatcher(watching, indexing) == watching

\* runIndexer's guard: if (this.isIndexing) return;
SkipIndexer(indexing, watching) == indexing

\* Database.getUnitCount: row ? row.available_units_count : null
GetUnitCount(st, resourceId) ==
    IF st[resourceId] = Null THEN Null
    ELSE Some(st[resourceId][1].available_units_count)

\* An updateUnitCount that is INSERT OR IGNORE: it keeps an existing count.
UpdateUnitCountInsertOnly(st, resourceId, count) ==
    [st EXCEPT ![resourceId] =
        IF @ = Null
        THEN Some([available_units_count |-> count, project_name |-> SqlNull])
        ELSE @]

\* An updateUnitCount that is a plain UPDATE: no row, nothing written.
UpdateUnitCountUpdateOnly(st, resourceId, count) ==
    [st EXCEPT ![resourceId] =
        IF @ = Null THEN @
        ELSE Some([@[1] EXCEPT !.available_units_count = count])]

\* An updateUnitCount whose conflict clause adds the new count to the old.
UpdateUnitCountAdd(st, resourceId, count) ==
    [st EXCEPT ![resourceId] =
        IF @ = Null
        THEN Some([available_units_count |-> count, project_name |-> SqlNull])
        ELSE Some([@[1] EXCEPT !.available_units_count = @ + count])]

\* An updateUnitCount that is INSERT OR REPLACE: the row is written anew.
UpdateUnitCountReplace(st, resourceId, count) ==
    [st EXCEPT ![resourceId] =
        Some([available_units_count |-> count, project_name |-> SqlNull])]

\* An updateUnitCount whose UPDATE has no WHERE clause: every stored row
\* gets the count.
UpdateUnitCountEveryRow(st, resourceId, count) ==
    [id \in DOMAIN st |->
        IF st[id] = Null
        THEN IF id = resourceId
             THEN Some([available_units_count |-> count,
                        project_name |-> SqlNull])
             ELSE Null
        ELSE Some([st[id][1] EXCEPT !.available_units_count = count])]

\* Database.updateUnitCount: INSERT (resource_id, available_units_count)
\* ON CONFLICT DO UPDATE SET available_units_count = excluded....
UpdateUnitCount(st, resourceId, count) ==
    [st EXCEPT ![resourceId] =
        IF @ = Null
        THEN Some([available_units_count |-> count, project_name |-> SqlNull])
        ELSE Some([@[1] EXCEPT !.available_units_count = count])]

\* A bound parameter: undefined is stored as NULL.
Bind(v) == IF v = Undefined THEN SqlNull ELSE v

\* An upsertProjectMetadata that is INSERT OR REPLACE: the count column
\* falls back to its DEFAULT.
UpsertProjectMetadataReplace(st, project) ==
    [st EXCEPT ![project.resource_id] =
        Some([available_units_count |-> DefaultCount,
              project_name |-> Bind(project.project_name)])]

\* Database.upsertProjectMetadata: INSERT the metadata columns (the count
\* column takes its DEFAULT) ON CONFLICT DO UPDATE SET the metadata columns.
UpsertProjectMetadata(st, project) ==
    [st EXCEPT ![project.resource_id] =
        IF @ = Null
        THEN Some([available_units_count |-> DefaultCount,
                   project_name |-> Bind(project.project_name)])
        ELSE Some([@[1] EXCEPT !.project_name = Bind(project.project_name)])]

\* A validateProject whose catch block and no-data branch return a stub
\* project instead of null.
ValidateProjectLenient(resourceId, resp) ==
    IF resp.t # "ok"
    THEN Some([resource_id |-> resourceId, project_name |-> "lookup-name",
               available_units_count |-> 1, bookable |-> TRUE])
    ELSE IF ~(resp.bookable = TRUE) \/ ~(resp.units > 0) THEN Null
         ELSE Some([resource_id |-> resourceId,
                    project_name |-> resp.name,
                    available_units_count |-> resp.units,
                    bookable |-> resp.bookable])

\* A validateProject that does not require units.
ValidateProjectBookableOnly(resourceId, resp) ==
    IF resp.t # "ok" \/ ~(resp.bookable = TRUE) THEN Null
    ELSE Some([resource_id |-> resourceId,
               project_name |-> resp.name,
               available_units_count |-> resp.units,
               bookable |-> resp.bookable])

\* Scraper.validateProject on the answer resp of the validation endpoint:
\* null when the request throws, when the body has no data, and when the
\* project is not bookable or has no units; else the normalized project.
ValidateProject(resourceId, resp) ==
    IF resp.t # "ok" THEN Null
    ELSE LET isBookable == resp.bookable = TRUE
             availableUnits == resp.units
             hasUnits == availableUnits > 0
         IN  IF ~isBookable \/ ~hasUnits THEN Null
             ELSE Some([resource_id |-> resourceId,
                        project_name |-> resp.name,
                        available_units_count |-> availableUnits,
                        bookable |-> resp.bookable])

\* A trigger that forgets the resource with no stored row.
TriggerZeroOnly(prev, count) == prev = Some(0) /\ count > 0

\* A trigger that fires on every positive count.
TriggerAnyPositive(prev, count) == count > 0

\* The trigger of runCheck:
\* (previousCount === null || previousCount === 0) && count > 0
Trigger(prev, count) == (prev = Null \/ prev = Some(0)) /\ count > 0

\* Notifier.sendNotification rejects when _formatMessage throws, which it
\* does, before the per-chat try, in _escapeHtml(project.project_name) for
\* a project without a name (text.replace on undefined).
SendNotificationThrows(project) == project.project_name = Undefined

\* A runCheck that persists the count and goes on to the next entry when
\* the Search API snapshot has no unit for the project.
AfterSearchDataRequired(searchData) ==
    IF searchData = Null \/ searchData[1].available_units_count = 0
                        \/ ~searchData[1].bookable
    THEN "updateRejected"
    ELSE "validateProject"

\* const searchData = searchMap.get(resource_id): found or not, whatever it
\* declares, it is logged and validateProject is called (index.js 369-399).
AfterSearchData(searchData) == "validateProject"

\* A runCheck that lets a null validation reach the catch of the check.
AfterValidateProjectThrows(validated) ==
    IF validated = Null THEN "catch" ELSE "upsertProjectMetadata"

\* A runCheck that calls validateProject again when it returned null.
AfterValidateProjectRetry(validated) ==
    IF validated = Null THEN "validateProject" ELSE "upsertProjectMetadata"

\* if (!validatedProject) { ...updateUnitCount...; continue; }, else the
\* metadata upsert (index.js 403-425).
AfterValidateProject(validated) ==
    IF validated = Null THEN "updateRejected" ELSE "upsertProjectMetadata"

\* `Check failed: ${error.message}`: a template literal is always a string.
CheckFailedMessage(err) == "Check failed: " \o err

\* A sendErrorNotification that cannot format the message of a TypeError.
SendErrorNotificationThrowsOnDispatch(errorMessage) ==
    errorMessage = "Check failed: dispatch"

\* Notifier.sendErrorNotification rejects only when _escapeHtml is given
\* something that is no string; a failed delivery is caught per chat.
SendErrorNotificationThrows(errorMessage) == errorMessage = Undefined

\* A runCheck without its finally block: the catch leaves the flag set.
IsCheckingAfterNoFinally(how) == how = "aborted"

\* A first-run return that bypasses line 343 and the finally block.
IsCheckingAfterNoEarlyClear(how) == how = "firstRun"

\* this.isChecking once runCheck has returned: finally (and line 343)
\* clear it on every way out.
IsCheckingAfter(how) == FALSE

\* A guard that never skips.
SkipCheckNever(checking) == FALSE

\* A runCheck that calls sendNotification again when it rejects.
AfterSendNotificationRetry(throws) ==
    IF throws THEN "sendNotification" ELSE "updateUnitCount"

\* Where runCheck goes after await sendNotification: a rejection is caught
\* by the catch of the whole check, else the count update follows.
AfterSendNotification(throws) == IF throws THEN "catch" ELSE "updateUnitCount"

\* runCheck's guard: if (this.isChecking) return;
SkipCheck(checking) == checking

\* A runCheck without the first-run branch.
LoopEntryAlwaysDetect(firstRun) == "getUnitCount"

\* Where runCheck goes once both feeds are fetched: if (this.isFirstRun)
\* the baseline loop, else the detection loop.
LoopEntry(firstRun) == IF firstRun THEN "firstRunUpdate" ELSE "getUnitCount"

\* A runCheck that prefers the Search API record, with the counter count,
\* whenever the snapshot has one.
NotificationPayloadFromSearch(validated, searchData, count) ==
    IF searchData = Null THEN validated
    ELSE [resource_id |-> validated.resource_id,
          project_name |-> searchData[1].project_name,
          available_units_count |-> count,
          bookable |-> searchData[1].bookable]

\* The project runCheck persists and notifies for a passed validation:
\* validatedProject itself; searchData and the counter count are only logged.
NotificationPayload(validated, searchData, count) == validated

\* ------------------------------------------------------------------ state

VARIABLES
    isChecking,        \* this.isChecking
    isFirstRun,        \* this.isFirstRun
    store,             \* the projects table: id -> Null or Some(row)
    pc,                \* the await runCheck is suspended at; "idle": none
    counters,          \* const counters (the Counter Feed snapshot)
    searchMap,         \* const searchMap (the Metadata Feed snapshot)
    idx,               \* position of the for-of loop in counters
    previousCount,     \* const previousCount
    validatedProject,  \* const validatedProject
    lastFire,          \* what the last timer fire did: its console line
    inflight,          \* runCheck invocations past the guard, not yet returned
    verdict,           \* this cycle: id -> the pipeline's decision
    lookups,           \* this cycle: id -> the Validation Lookup's answers
    dispatched,        \* this cycle: id -> the projects given to sendNotification
    dispatchFailed,    \* this cycle: ids whose sendNotification did not deliver
    outcome,           \* how the last finished cycle ended
    error,             \* the error runCheck's catch block caught
    scripted,          \* the Counter Feed follows script for ScriptedId
    script,            \* the counts still to come for ScriptedId
    confirmedAt,       \* script positions at which ScriptedId was Confirmed
    storeCalls,        \* this cycle: the database calls runCheck made, in order
    escaped,           \* a runCheck promise rejected into the timer callback
    phase,             \* "running"; "closing": shutdown awaits close; "exited"
    lateStoreCall,     \* a database call was made after shutdown called close
    storeTrace,        \* store scenario: the calls made, with the store around each
    signedFeed,        \* the Counters API may report a negative count
    searchFetches,     \* this cycle: the calls of fetchSearchAPI made
    uncommitted,       \* ids whose count a runCheck has read and not yet updated
    isIndexing,        \* hybrid bot: this.isIndexing
    isWatching,        \* hybrid bot: this.isWatching
    isFirstWatcherRun, \* hybrid bot: this.isFirstWatcherRun
    scheduled,         \* hybrid bot: initialize has set both intervals
    indexerPc,         \* the await runIndexer is suspended at; "idle": none
    projects,          \* runIndexer: const projects
    projectIdx,        \* runIndexer: position of the for-of loop in projects
    watcherPc,         \* the await runWatcher is suspended at; "idle": none
    watcherCounters,   \* runWatcher: const counters
    watcherIdx,        \* runWatcher: position of the for-of loop in counters
    watcherPrevious,   \* runWatcher: const previousCount
    timerFire,         \* what the last fire of either interval did
    indexersInFlight,  \* runIndexer invocations past the guard, not yet returned
    watchersInFlight,  \* runWatcher invocations past the guard, not yet returned
    transitions,       \* this Watcher cycle: the ids that met the trigger
    expected,          \* the same, had the Indexer written nothing meanwhile
    baseline,          \* the store without the Indexer's writes of this Watcher cycle
    traced,            \* the events sinceZero keeps in this run
    sinceZero          \* id -> what happened to it since a count 0 was last written

vars == <<isChecking, isFirstRun, store, pc, counters, searchMap, idx,
          previousCount, validatedProject, lastFire, inflight, verdict,
          lookups, dispatched, dispatchFailed, outcome, error, scripted,
          script, confirmedAt, storeCalls, escaped, phase, lateStoreCall,
          storeTrace, signedFeed, searchFetches, uncommitted,
          isIndexing, isWatching, isFirstWatcherRun, scheduled, indexerPc,
          projects, projectIdx, watcherPc, watcherCounters, watcherIdx,
          watcherPrevious, timerFire, indexersInFlight, watchersInFlight,
          transitions, expected, baseline, traced, sinceZero>>

cycleLocals == <<counters, searchMap, idx, previousCount, validatedProject>>

cycleLog == <<verdict, lookups, dispatched, dispatchFailed>>

feed == <<scripted, script, confirmedAt>>

\* The fields and locals of runIndexer.
indexerVars ==
    <<isIndexing, scheduled, indexerPc, projects, projectIdx, indexersInFlight>>

\* The fields and locals of runWatcher.
watcherVars ==
    <<isWatching, isFirstWatcherRun, watcherPc, watcherCounters, watcherIdx,
      watcherPrevious, watchersInFlight, transitions, expected>>

\* The hybrid bot (one Indexer and one Watcher interval).
hybrid == <<indexerVars, watcherVars, timerFire, baseline>>

process == <<escaped, phase, storeTrace, signedFeed, hybrid, traced>>

\* The Counter Feed sequence of the plateau scenario: [absent, 5, 5, 0, 5].
PlateauScript ==
    <<Null, Some(PlateauCount), Some(PlateauCount), Some(0), Some(PlateauCount)>>

\* The index in PlateauScript of the snapshot the current cycle observes.
ScriptPos == Len(PlateauScript) - Len(script)

NoVerdicts == [id \in ResourceIds |-> "none"]

NoCalls == [id \in ResourceIds |-> <<>>]

\* AqarBot.constructor, then initialize(): an open database, whatever rows
\* an earlier run of the bot left in it.
InitBot ==
    /\ isChecking = FALSE
    /\ isFirstRun = TRUE
    /\ pc = "idle"
    /\ counters = <<>>
    /\ searchMap = EmptySearchMap
    /\ idx = 0
    /\ previousCount = Null
    /\ validatedProject = Null
    /\ lastFire = "none"
    /\ inflight = 0
    /\ verdict = NoVerdicts
    /\ lookups = NoCalls
    /\ dispatched = NoCalls
    /\ dispatchFailed = {}
    /\ outcome = "none"
    /\ error = "none"
    /\ confirmedAt = {}
    /\ storeCalls = <<>>
    /\ escaped = FALSE
    /\ phase = "running"
    /\ lateStoreCall = FALSE
    /\ storeTrace = <<>>
    /\ searchFetches = 0
    /\ uncommitted = <<>>
    /\ isIndexing = FALSE
    /\ isWatching = FALSE
    /\ isFirstWatcherRun = TRUE
    /\ scheduled = FALSE
    /\ indexerPc = "idle"
    /\ projects = <<>>
    /\ projectIdx = 0
    /\ watcherPc = "idle"
    /\ watcherCounters = <<>>
    /\ watcherIdx = 0
    /\ watcherPrevious = Null
    /\ timerFire = "none"
    /\ indexersInFlight = 0
    /\ watchersInFlight = 0
    /\ transitions = {}
    /\ expected = {}
    /\ baseline = [id \in ResourceIds |-> Null]
    /\ sinceZero = [id \in ResourceIds |-> {}]

\* A cold store: _createTables on a fresh file.
ColdStore == [id \in ResourceIds |-> Null]

Init ==
    /\ InitBot
    /\ store = ColdStore
    /\ scripted = FALSE
    /\ script = <<>>
    /\ signedFeed = FALSE
    /\ traced = {}

\* The same bot in front of a Counters API that may report negative counts.
InitSigned ==
    /\ InitBot
    /\ store = ColdStore
    /\ scripted = FALSE
    /\ script = <<>>
    /\ signedFeed = TRUE
    /\ traced = {}

InitPlateau ==
    /\ InitBot
    /\ store = ColdStore
    /\ scripted = TRUE
    /\ script = PlateauScript
    /\ signedFeed = FALSE
    /\ traced = {}

\* ---------------------------------------------------------------- actions

\* The entry of counters the loop is at.
Entry == counters[idx]

\* What the Counters API can answer.  Under a script the count of ScriptedId
\* is the script's next one; every other count is free.
CounterFeeds ==
    IF scripted
    THEN {raw \in RawCounters(RawCountValues(signedFeed) \cup {Some(PlateauCount)}) :
            /\ IF Head(script) = Null
               THEN ScriptedId \notin DOMAIN raw
               ELSE ScriptedId \in DOMAIN raw /\ raw[ScriptedId] = Head(script)
            /\ \A id \in DOMAIN raw \ {ScriptedId} :
                  raw[id] \in RawCountValues(signedFeed)}
    ELSE RawCounters(RawCountValues(signedFeed))

\* What is kept of a Validation Lookup answer for the cycle's log: the
\* answer itself when it validates, else only why it did not.
Observed(resp) ==
    IF resp.t = "ok" /\ resp.bookable /\ resp.units > 0 THEN resp
    ELSE [t |-> IF resp.t = "ok" THEN "refuted" ELSE resp.t,
          bookable |-> FALSE, units |-> 0, name |-> Undefined]

\* The process has not exited: its callbacks still run.
Alive == phase # "exited"

\* The places where runCheck awaits a database call.
StorePcs ==
    {"firstRunUpdate", "getUnitCount", "updateRejected",
     "upsertProjectMetadata", "updateUnitCount"}

\* The step goes on to make a database call although shutdown has already
\* called close.
CallsLate == phase # "running" /\ pc' \in StorePcs

\* The events that tell of something happening a second time.
Repeats ==
    {"dispatchedTwice", "lookupAfterRejected", "dispatchedAfterRejected",
     "dispatchedAfterSuppressed"}

\* sinceZero once the entry at hand has had the events noted: the kept
\* ones, and every repeat.
Noted(events) ==
    [sinceZero EXCEPT ![Entry.resource_id] =
        @ \cup (events \cap (traced \cup Repeats))]

\* sinceZero after a database call: a written count 0 starts the
\* resource's history anew; a positive count written for a rejected
\* Transition, or by a first run over a stored 0, is noted.
AfterStoreCall(op, ok) ==
    IF traced = {} \/ ~ok \/ op # "updateUnitCount" THEN sinceZero
    ELSE IF Entry.count = 0
         THEN [sinceZero EXCEPT ![Entry.resource_id] = {}]
         ELSE IF pc = "updateRejected" THEN Noted({"rejected"})
         ELSE IF /\ pc = "firstRunUpdate"
                 /\ GetUnitCount(store, Entry.resource_id) = Some(0)
              THEN Noted({"suppressed"})
              ELSE sinceZero

\* What a Validation Lookup adds to the history of the entry at hand.
LookupEvents ==
    IF "rejected" \in sinceZero[Entry.resource_id]
    THEN {"lookupAfterRejected"} ELSE {}

\* What a dispatcher call adds to the history of the entry at hand.
DispatchEvents ==
    {"dispatched"}
    \cup (IF "dispatched" \in sinceZero[Entry.resource_id]
          THEN {"dispatchedTwice"} ELSE {})
    \cup (IF "rejected" \in sinceZero[Entry.resource_id]
          THEN {"dispatchedAfterRejected"} ELSE {})
    \cup (IF "suppressed" \in sinceZero[Entry.resource_id]
          THEN {"dispatchedAfterSuppressed"} ELSE {})

\* The database call op that runCheck awaited for the entry at hand
\* resolves (ok) or rejects.
StoreCall(op, ok) ==
    /\ storeCalls' = Append(storeCalls,
                            [op |-> op, id |-> Entry.resource_id, ok |-> ok])
    /\ lateStoreCall' = (lateStoreCall \/ CallsLate)
    /\ uncommitted' =
         IF ok /\ op = "getUnitCount"
         THEN Append(uncommitted, Entry.resource_id)
         ELSE IF ok /\ op = "updateUnitCount"
              THEN SelectSeq(uncommitted, LAMBDA id : id # Entry.resource_id)
              ELSE uncommitted
    /\ sinceZero' = AfterStoreCall(op, ok)
    /\ UNCHANGED <<process, searchFetches>>

\* An awaited call of the scraper or the notifier resolves or rejects.
NoStoreCall ==
    /\ lateStoreCall' = (lateStoreCall \/ CallsLate)
    /\ UNCHANGED <<storeCalls, process, searchFetches, uncommitted, sinceZero>>

\* The same for a call whose events the history of the entry keeps.
NotedCall(events) ==
    /\ lateStoreCall' = (lateStoreCall \/ CallsLate)
    /\ sinceZero' = Noted(events)
    /\ UNCHANGED <<storeCalls, process, searchFetches, uncommitted>>

\* The database call runCheck awaits at each place.
StoreOpAt(at) ==
    CASE at = "getUnitCount" -> "getUnitCount"
      [] at = "upsertProjectMetadata" -> "upsertProjectMetadata"
      [] OTHER -> "updateUnitCount"

\* runCheck returns: the finally block (and, on the first run, line 343).
Finish(how) ==
    /\ isChecking' = IsCheckingAfter(how)
    /\ pc' = "idle"
    /\ inflight' = inflight - 1
    /\ outcome' = how
    /\ idx' = 0
    /\ previousCount' = Null
    /\ validatedProject' = Null
    /\ script' = IF scripted /\ how # "aborted" THEN Tail(script) ELSE script
    /\ UNCHANGED <<counters, searchMap, error, scripted, confirmedAt>>

\* The end of one loop iteration: the next entry, or the end of the cycle.
Advance(nextPc, how) ==
    IF idx < Len(counters)
    THEN /\ idx' = idx + 1
         /\ pc' = nextPc
         /\ previousCount' = Null
         /\ validatedProject' = Null
         /\ UNCHANGED <<isChecking, inflight, outcome, error, counters,
                         searchMap, feed>>
    ELSE Finish(how)

\* setInterval fires and runCheck passes its guard (index.js 303-316).
TimerFireStart ==
    /\ phase = "running"
    /\ ~SkipCheck(isChecking)
    /\ scripted => script # <<>>
    /\ isChecking' = TRUE
    /\ pc' = "fetchCounters"
    /\ inflight' = inflight + 1
    /\ lastFire' = "started"
    /\ outcome' = "running"
    /\ error' = "none"
    /\ counters' = <<>>
    /\ searchMap' = EmptySearchMap
    /\ idx' = 0
    /\ previousCount' = Null
    /\ validatedProject' = Null
    /\ verdict' = NoVerdicts
    /\ lookups' = NoCalls
    /\ dispatched' = NoCalls
    /\ dispatchFailed' = {}
    /\ storeCalls' = <<>>
    /\ searchFetches' = 0
    /\ UNCHANGED <<isFirstRun, store, feed, lateStoreCall, process, uncommitted,
                   sinceZero>>

\* setInterval fires while a check is in progress (index.js 303-306).
TimerFireSkipped ==
    /\ phase = "running"
    /\ SkipCheck(isChecking)
    /\ lastFire' = "skipped"
    /\ NoStoreCall
    /\ UNCHANGED <<isChecking, isFirstRun, store, pc, cycleLocals, inflight,
                   cycleLog, outcome, error, feed>>

\* await this.scraper.fetchCountersAPI() resolves and fetchSearchAPI() is
\* called (index.js 320-325).
FetchCounters ==
    /\ Alive
    /\ pc = "fetchCounters"
    /\ \E raw \in CounterFeeds : counters' = NormalizeCountersResponse(raw)
    /\ pc' = "fetchSearch"
    /\ searchFetches' = searchFetches + 1
    /\ lastFire' = "none"
    /\ UNCHANGED <<storeCalls, lateStoreCall, process, uncommitted, sinceZero>>
    /\ UNCHANGED <<isChecking, isFirstRun, store, searchMap, idx, previousCount,
                   validatedProject, inflight, cycleLog, outcome, error, feed>>

\* await this.scraper.fetchSearchAPI() resolves; the map is built and the
\* first-run test is made (index.js 325-347).
FetchSearch ==
    /\ Alive
    /\ pc = "fetchSearch"
    /\ lastFire' = "none"
    /\ IF counters = <<>>
       THEN /\ isFirstRun' = FALSE
            /\ Finish(IF isFirstRun THEN "firstRun" ELSE "completed")
       ELSE /\ \E m \in SearchMaps : searchMap' = m
            /\ idx' = 1
            /\ pc' = LoopEntry(isFirstRun)
            /\ UNCHANGED <<isChecking, isFirstRun, counters, previousCount,
                           validatedProject, inflight, outcome, error, feed>>
    /\ NoStoreCall
    /\ UNCHANGED <<store, cycleLog>>

\* A feed fetch rejects (scraper.js 54-64, 100-112).
FeedFails ==
    /\ Alive
    /\ pc \in {"fetchCounters", "fetchSearch"}
    /\ pc' = "catch"
    /\ error' = "feed"
    /\ lastFire' = "none"
    /\ NoStoreCall
    /\ UNCHANGED <<isChecking, isFirstRun, store, cycleLocals, inflight,
                   cycleLog, outcome, feed>>

\* First run: await this.database.updateUnitCount(resource_id, count) for
\* each entry, then the flags are cleared and runCheck returns (338-344).
FirstRunUpdate ==
    /\ Alive
    /\ pc = "firstRunUpdate"
    /\ store' = UpdateUnitCount(store, Entry.resource_id, Entry.count)
    /\ isFirstRun' = (idx < Len(counters))
    /\ Advance("firstRunUpdate", "firstRun")
    /\ lastFire' = "none"
    /\ StoreCall("updateUnitCount", TRUE)
    /\ UNCHANGED cycleLog

\* await this.database.getUnitCount(resource_id), then the trigger test
\* (index.js 350-353).
ReadPrevious ==
    /\ Alive
    /\ pc = "getUnitCount"
    /\ previousCount' = GetUnitCount(store, Entry.resource_id)
    /\ IF Trigger(previousCount', Entry.count)
       THEN /\ pc' = AfterSearchData(searchMap[Entry.resource_id])
            /\ verdict' = [verdict EXCEPT ![Entry.resource_id] = "Transition"]
       ELSE /\ pc' = "updateUnitCount"
            /\ verdict' = [verdict EXCEPT ![Entry.resource_id] = "NoChange"]
    /\ lastFire' = "none"
    /\ StoreCall("getUnitCount", TRUE)
    /\ UNCHANGED <<isChecking, isFirstRun, store, counters, searchMap, idx,
                   validatedProject, inflight, lookups, dispatched,
                   dispatchFailed, outcome, error, feed>>

\* await this.scraper.validateProject(resource_id) and the test of its
\* result (index.js 370-412).
Validate ==
    /\ Alive
    /\ pc = "validateProject"
    /\ \E resp \in LookupResponses :
         /\ validatedProject' = ValidateProject(Entry.resource_id, resp)
         /\ lookups' = [lookups EXCEPT ![Entry.resource_id] =
                           Append(@, Observed(resp))]
    /\ pc' = AfterValidateProject(validatedProject')
    /\ IF validatedProject' = Null
       THEN /\ verdict' = [verdict EXCEPT ![Entry.resource_id] = "Rejected"]
            /\ confirmedAt' = confirmedAt
       ELSE /\ verdict' = [verdict EXCEPT ![Entry.resource_id] = "Confirmed"]
            /\ confirmedAt' = IF scripted /\ Entry.resource_id = ScriptedId
                              THEN confirmedAt \cup {ScriptPos}
                              ELSE confirmedAt
    /\ lastFire' = "none"
    /\ NotedCall(LookupEvents)
    /\ UNCHANGED <<isChecking, isFirstRun, store, counters, searchMap, idx,
                   previousCount, inflight, dispatched, dispatchFailed, outcome,
                   error, scripted, script>>

\* Validation failed: await this.database.updateUnitCount(resource_id,
\* count); continue (index.js 403-409).
UpdateRejected ==
    /\ Alive
    /\ pc = "updateRejected"
    /\ store' = UpdateUnitCount(store, Entry.resource_id, Entry.count)
    /\ Advance("getUnitCount", "completed")
    /\ lastFire' = "none"
    /\ StoreCall("updateUnitCount", TRUE)
    /\ UNCHANGED <<isFirstRun, cycleLog>>

\* The project of lines 425-426.
Payload ==
    NotificationPayload(validatedProject[1], searchMap[Entry.resource_id],
                        Entry.count)

\* await this.database.upsertProjectMetadata(validatedProject) (index.js 425).
UpsertMetadata ==
    /\ Alive
    /\ pc = "upsertProjectMetadata"
    /\ store' = UpsertProjectMetadata(store, Payload)
    /\ pc' = "sendNotification"
    /\ lastFire' = "none"
    /\ StoreCall("upsertProjectMetadata", TRUE)
    /\ UNCHANGED <<isChecking, isFirstRun, cycleLocals, inflight, cycleLog,
                   outcome, error, feed>>

\* await this.notifier.sendNotification(validatedProject, "available")
\* (index.js 426; database.js 520-556): it rejects when the message cannot
\* be formatted; a failed delivery is caught inside and it resolves.
SendNotification ==
    /\ Alive
    /\ pc = "sendNotification"
    /\ dispatched' = [dispatched EXCEPT ![Entry.resource_id] =
                         Append(@, Payload)]
    /\ pc' = AfterSendNotification(SendNotificationThrows(Payload))
    /\ IF SendNotificationThrows(Payload)
       THEN /\ error' = "dispatch"
            /\ dispatchFailed' = dispatchFailed \cup {Entry.resource_id}
       ELSE /\ error' = error
            /\ \E delivered \in BOOLEAN :
                 dispatchFailed' = IF delivered THEN dispatchFailed
                                   ELSE dispatchFailed \cup {Entry.resource_id}
    /\ lastFire' = "none"
    /\ NotedCall(DispatchEvents)
    /\ UNCHANGED <<isChecking, isFirstRun, store, cycleLocals, inflight,
                   verdict, lookups, outcome, feed>>

\* Always update counter: await this.database.updateUnitCount(resource_id,
\* count) (index.js 433-434).
UpdateCount ==
    /\ Alive
    /\ pc = "updateUnitCount"
    /\ store' = UpdateUnitCount(store, Entry.resource_id, Entry.count)
    /\ Advance("getUnitCount", "completed")
    /\ lastFire' = "none"
    /\ StoreCall("updateUnitCount", TRUE)
    /\ UNCHANGED <<isFirstRun, cycleLog>>

\* A database call rejects (the reject(err) of database.js 390, 435, 458).
StoreFails ==
    /\ Alive
    /\ pc \in StorePcs
    /\ pc' = "catch"
    /\ error' = "store"
    /\ lastFire' = "none"
    /\ StoreCall(StoreOpAt(pc), FALSE)
    /\ UNCHANGED <<isChecking, isFirstRun, store, cycleLocals, inflight,
                   cycleLog, outcome, feed>>

\* catch: await this.notifier.sendErrorNotification(...); finally
\* (index.js 444-452).  Were sendErrorNotification to reject, the finally
\* block would still run and runCheck's promise would reject.
CatchError ==
    /\ Alive
    /\ pc = "catch"
    /\ Finish("aborted")
    /\ escaped' = (escaped \/ SendErrorNotificationThrows(CheckFailedMessage(error)))
    /\ lastFire' = "none"
    /\ uncommitted' = <<>>
    /\ UNCHANGED <<isFirstRun, store, cycleLog, storeCalls, lateStoreCall,
                   phase, storeTrace, signedFeed, searchFetches, hybrid,
                   traced, sinceZero>>

\* One step of a runCheck in flight: an awaited call resolves or rejects.
CycleStep ==
    \/ FetchCounters
    \/ FetchSearch
    \/ FeedFails
    \/ FirstRunUpdate
    \/ ReadPrevious
    \/ Validate
    \/ UpdateRejected
    \/ UpsertMetadata
    \/ SendNotification
    \/ UpdateCount
    \/ StoreFails
    \/ CatchError

Next ==
    \/ TimerFireStart
    \/ TimerFireSkipped
    \/ FetchCounters
    \/ FetchSearch
    \/ FeedFails
    \/ FirstRunUpdate
    \/ ReadPrevious
    \/ Validate
    \/ UpdateRejected
    \/ UpsertMetadata
    \/ SendNotification
    \/ UpdateCount
    \/ StoreFails
    \/ CatchError

Spec == Init /\ [][Next]_vars

SpecPlateau == InitPlateau /\ [][Next]_vars

\* Every awaited call of a runCheck in flight returns or fails.
SpecLive == Init /\ [][Next]_vars /\ WF_vars(CycleStep)

\* Everything but phase.
botState ==
    <<isChecking, isFirstRun, store, pc, cycleLocals, lastFire, inflight,
      cycleLog, outcome, error, feed, storeCalls, escaped, lateStoreCall,
      storeTrace, signedFeed, searchFetches, uncommitted, hybrid, traced,
      sinceZero>>

\* SIGINT or SIGTERM: shutdown() clears the interval and calls
\* this.database.close() (index.js 458-465).
Shutdown ==
    /\ phase = "running"
    /\ phase' = "closing"
    /\ UNCHANGED botState

\* close() resolves and shutdown calls process.exit(0) (index.js 465-469).
\* The database runs its calls in the order they were made: a call made
\* before close has resolved or rejected by then.
CloseResolves ==
    /\ phase = "closing"
    /\ pc \in StorePcs => lateStoreCall
    /\ phase' = "exited"
    /\ UNCHANGED botState

NextShutdown ==
    \/ Next
    \/ Shutdown
    \/ CloseResolves

SpecShutdown == Init /\ [][NextShutdown]_vars

SpecSigned == InitSigned /\ [][Next]_vars

\* A start of the bot on the table an earlier run left: rows with a count,
\* no row for the resources that run never saw.
RestartStores ==
    [ResourceIds ->
        {Null} \cup {Some([available_units_count |-> n,
                           project_name |-> SqlNull]) : n \in {0, MaxCount}}]

\* The bot after a restart; from then on the history of each resource
\* keeps the rejected Transitions and the first run's suppressed ones.
InitRestart ==
    /\ InitBot
    /\ store \in RestartStores
    /\ scripted = FALSE
    /\ script = <<>>
    /\ signedFeed = FALSE
    /\ traced = {"rejected", "suppressed"}

SpecRestart == InitRestart /\ [][Next]_vars

\* The bot on a cold store, the history of each resource keeping the
\* dispatcher calls.
InitAlerts ==
    /\ InitBot
    /\ store = ColdStore
    /\ scripted = FALSE
    /\ script = <<>>
    /\ signedFeed = FALSE
    /\ traced = {"dispatched"}

SpecAlerts == InitAlerts /\ [][Next]_vars

\* The rows a projects table can hold.
StoreRows ==
    [available_units_count : Counts,
     project_name : {SqlNull, "search-name", "lookup-name"}]

Stores == [ResourceIds -> {Null} \cup {Some(r) : r \in StoreRows}]

\* An open database with any rows, and no check in progress.
InitStore ==
    /\ InitBot
    /\ store \in Stores
    /\ scripted = FALSE
    /\ script = <<>>
    /\ signedFeed = FALSE
    /\ traced = {}

\* Everything a database call leaves alone.
storeFrame ==
    <<isChecking, isFirstRun, pc, cycleLocals, lastFire, inflight, cycleLog,
      outcome, error, feed, storeCalls, escaped, phase, lateStoreCall,
      signedFeed, searchFetches, uncommitted, hybrid, traced, sinceZero>>

\* One executed statement, with the table before and after it.
Called(op, id, name, count, after) ==
    [op |-> op, id |-> id, name |-> name, count |-> count,
     before |-> store, after |-> after]

\* An Indexer's await this.database.upsertProjectMetadata(project): one
\* statement, which the database runs whole.
IndexerUpsertMetadata ==
    /\ Len(storeTrace) < MaxCalls
    /\ \E id \in ResourceIds, name \in {"search-name", "lookup-name", Undefined} :
         LET after == UpsertProjectMetadata(
                          store, [resource_id |-> id, project_name |-> name])
         IN  /\ store' = after
             /\ storeTrace' = Append(storeTrace,
                    Called("upsertProjectMetadata", id, name, 0, after))
    /\ UNCHANGED storeFrame

\* A Watcher's await this.database.updateUnitCount(id, n): one statement.
WatcherUpdateCount ==
    /\ Len(storeTrace) < MaxCalls
    /\ \E id \in ResourceIds, n \in Counts :
         LET after == UpdateUnitCount(store, id, n)
         IN  /\ store' = after
             /\ storeTrace' = Append(storeTrace,
                    Called("updateUnitCount", id, Undefined, n, after))
    /\ UNCHANGED storeFrame

NextStore ==
    \/ IndexerUpsertMetadata
    \/ WatcherUpdateCount

SpecStore == InitStore /\ [][NextStore]_vars

\* ------------------------------------------------- per-project processing

\* The projects the API lists, as processProject gets them.
ApiProjects ==
    [id : ResourceIds, project_name : {"search-name"},
     available_units_count : Counts]

\* The tables of the bot that stores the API's projects whole: name and
\* count are NOT NULL.
ProjectStores ==
    [ResourceIds ->
        {Null} \cup {Some(r) : r \in [available_units_count : Counts,
                                       project_name : {"search-name"}]}]

InitNotify ==
    /\ InitBot
    /\ store \in ProjectStores
    /\ scripted = FALSE
    /\ script = <<>>
    /\ signedFeed = FALSE
    /\ traced = {}

\* processProject(project): shouldNotify decides against the stored row,
\* then the project is inserted or updated.  checkProjects processes one
\* project after the other, so nothing else touches the table meanwhile.
ProcessProject ==
    /\ Len(storeTrace) < MaxCalls
    /\ \E project \in ApiProjects :
         /\ storeTrace' = Append(storeTrace,
                [op |-> "shouldNotify", project |-> project,
                 existing |-> GetProject(store, project.id),
                 result |-> ShouldNotify(GetProject(store, project.id),
                                         project)])
         /\ store' = SaveProject(store, project)
    /\ UNCHANGED storeFrame

NextNotify == ProcessProject

SpecNotify == InitNotify /\ [][NextNotify]_vars

\* ------------------------------------------------------------- hybrid bot

\* The bot with two intervals: runIndexer copies the Search API into the
\* metadata columns, runWatcher compares the Counters API with the stored
\* counts.  One action per await point of each.

\* runCheck's variables, which the hybrid bot does not have.
checkVars ==
    <<isChecking, isFirstRun, pc, counters, searchMap, idx, previousCount,
      validatedProject, lastFire, inflight, verdict, lookups, dispatched,
      dispatchFailed, outcome, error, scripted, script, confirmedAt,
      storeCalls, escaped, phase, lateStoreCall, storeTrace, signedFeed,
      searchFetches, uncommitted, traced, sinceZero>>

\* What fetchCountersAPI can answer the Watcher.
WatcherFeeds ==
    {NormalizeCountersResponse(raw) :
        raw \in RawCounters({Some(0), Some(MaxCount)})}

\* What fetchSearchAPI can answer the Indexer: the projects of some ids.
ProjectLists ==
    {[k \in 1 .. Len(SortedIds(D)) |->
         [resource_id |-> SortedIds(D)[k], project_name |-> "search-name"]] :
     D \in SUBSET ResourceIds}

InitHybrid ==
    /\ InitBot
    /\ store = ColdStore
    /\ scripted = FALSE
    /\ script = <<>>
    /\ signedFeed = FALSE
    /\ traced = {}

\* runIndexer passes its guard and awaits fetchSearchAPI.
IndexerBegins ==
    /\ isIndexing' = TRUE
    /\ indexerPc' = "fetchSearchAPI"
    /\ indexersInFlight' = indexersInFlight + 1
    /\ projects' = <<>>
    /\ projectIdx' = 0

\* runIndexer's finally block and return; initialize, which awaited the
\* first run, then sets both intervals.
IndexerReturns ==
    /\ isIndexing' = FALSE
    /\ indexerPc' = "idle"
    /\ indexersInFlight' = indexersInFlight - 1
    /\ projects' = <<>>
    /\ projectIdx' = 0
    /\ scheduled' = TRUE

\* The store the Watcher would see without the Indexer's write: the write
\* counts as made before the cycle when no Watcher cycle runs.
BaselineAfterIndexer(st) == IF watcherPc = "idle" THEN st ELSE baseline

\* initialize(): await this.runIndexer() before any interval is set.
Initialize ==
    /\ ~scheduled
    /\ indexerPc = "idle"
    /\ IndexerBegins
    /\ timerFire' = "none"
    /\ UNCHANGED <<store, baseline, scheduled, watcherVars, checkVars>>

\* The Indexer interval fires and runIndexer passes its guard.
RunIndexerStart ==
    /\ scheduled
    /\ ~SkipIndexer(isIndexing, isWatching)
    /\ IndexerBegins
    /\ timerFire' = "indexerStarted"
    /\ UNCHANGED <<store, baseline, scheduled, watcherVars, checkVars>>

\* The Indexer interval fires while a run is in progress: it returns.
RunIndexerSkipped ==
    /\ scheduled
    /\ SkipIndexer(isIndexing, isWatching)
    /\ timerFire' = "indexerSkipped"
    /\ UNCHANGED <<store, baseline, indexerVars, watcherVars, checkVars>>

\* const projects = await this.scraper.fetchSearchAPI() resolves.
RunIndexerFetch ==
    /\ indexerPc = "fetchSearchAPI"
    /\ \E ps \in ProjectLists :
         IF ps = <<>>
         THEN IndexerReturns
         ELSE /\ projects' = ps
              /\ projectIdx' = 1
              /\ indexerPc' = "upsertProjectMetadata"
              /\ UNCHANGED <<isIndexing, scheduled, indexersInFlight>>
    /\ timerFire' = "none"
    /\ UNCHANGED <<store, baseline, watcherVars, checkVars>>

\* await this.database.upsertProjectMetadata(project) resolves.
RunIndexerUpsert ==
    /\ indexerPc = "upsertProjectMetadata"
    /\ store' = UpsertProjectMetadata(store, projects[projectIdx])
    /\ baseline' = BaselineAfterIndexer(store')
    /\ IF projectIdx < Len(projects)
       THEN /\ projectIdx' = projectIdx + 1
            /\ UNCHANGED <<isIndexing, scheduled, indexerPc, projects,
                           indexersInFlight>>
       ELSE IndexerReturns
    /\ timerFire' = "none"
    /\ UNCHANGED <<watcherVars, checkVars>>

\* fetchSearchAPI or upsertProjectMetadata rejects: the catch block awaits
\* sendErrorNotification.
RunIndexerFails ==
    /\ indexerPc \in {"fetchSearchAPI", "upsertProjectMetadata"}
    /\ indexerPc' = "catch"
    /\ timerFire' = "none"
    /\ UNCHANGED <<store, baseline, isIndexing, scheduled, projects, projectIdx,
                   indexersInFlight, watcherVars, checkVars>>

\* sendErrorNotification settles and the finally block runs.
RunIndexerCatch ==
    /\ indexerPc = "catch"
    /\ IndexerReturns
    /\ timerFire' = "none"
    /\ UNCHANGED <<store, baseline, watcherVars, checkVars>>

\* The entry runWatcher's loop is at.
WatcherEntry == watcherCounters[watcherIdx]

\* runWatcher returns: its finally block, or the first run's return.
WatcherReturns ==
    /\ isWatching' = FALSE
    /\ watcherPc' = "idle"
    /\ watchersInFlight' = watchersInFlight - 1
    /\ watcherCounters' = <<>>
    /\ watcherIdx' = 0
    /\ watcherPrevious' = Null
    /\ UNCHANGED <<transitions, expected>>

\* The Watcher interval fires and runWatcher passes its guard.
RunWatcherStart ==
    /\ scheduled
    /\ ~SkipWatcher(isWatching, isIndexing)
    /\ isWatching' = TRUE
    /\ watcherPc' = "fetchCountersAPI"
    /\ watchersInFlight' = watchersInFlight + 1
    /\ watcherCounters' = <<>>
    /\ watcherIdx' = 0
    /\ watcherPrevious' = Null
    /\ transitions' = {}
    /\ expected' = {}
    /\ baseline' = store
    /\ timerFire' = "watcherStarted"
    /\ UNCHANGED <<store, isFirstWatcherRun, indexerVars, checkVars>>

\* The Watcher interval fires while a run is in progress: it returns.
RunWatcherSkipped ==
    /\ scheduled
    /\ SkipWatcher(isWatching, isIndexing)
    /\ timerFire' = "watcherSkipped"
    /\ UNCHANGED <<store, baseline, indexerVars, watcherVars, checkVars>>

\* const counters = await this.scraper.fetchCountersAPI() resolves.
RunWatcherFetch ==
    /\ watcherPc = "fetchCountersAPI"
    /\ \E cs \in WatcherFeeds :
         IF cs = <<>>
         THEN /\ isFirstWatcherRun' = FALSE
              /\ WatcherReturns
         ELSE /\ watcherCounters' = cs
              /\ watcherIdx' = 1
              /\ watcherPc' = IF isFirstWatcherRun THEN "firstRunUpdate"
                                                   ELSE "getUnitCount"
              /\ UNCHANGED <<isWatching, isFirstWatcherRun, watcherPrevious,
                             watchersInFlight, transitions, expected>>
    /\ timerFire' = "none"
    /\ UNCHANGED <<store, baseline, indexerVars, checkVars>>

\* First run: await this.database.updateUnitCount(resource_id, count) for
\* each entry, then the flags are cleared and runWatcher returns.
RunWatcherFirstRun ==
    /\ watcherPc = "firstRunUpdate"
    /\ store' = UpdateUnitCount(store, WatcherEntry.resource_id,
                                WatcherEntry.count)
    /\ IF watcherIdx < Len(watcherCounters)
       THEN /\ watcherIdx' = watcherIdx + 1
            /\ baseline' = UpdateUnitCount(baseline, WatcherEntry.resource_id,
                                           WatcherEntry.count)
            /\ UNCHANGED <<isWatching, isFirstWatcherRun, watcherPc,
                           watcherCounters, watcherPrevious, watchersInFlight,
                           transitions, expected>>
       ELSE /\ isFirstWatcherRun' = FALSE
            /\ baseline' = store'
            /\ WatcherReturns
    /\ timerFire' = "none"
    /\ UNCHANGED <<indexerVars, checkVars>>

\* const previousCount = await this.database.getUnitCount(resource_id), then
\* the trigger test.
RunWatcherRead ==
    /\ watcherPc = "getUnitCount"
    /\ watcherPrevious' = GetUnitCount(store, WatcherEntry.resource_id)
    /\ IF Trigger(watcherPrevious', WatcherEntry.count)
       THEN /\ watcherPc' = "getProject"
            /\ transitions' = transitions \cup {WatcherEntry.resource_id}
       ELSE /\ watcherPc' = "updateUnitCount"
            /\ transitions' = transitions
    /\ expected' =
         IF Trigger(GetUnitCount(baseline, WatcherEntry.resource_id),
                    WatcherEntry.count)
         THEN expected \cup {WatcherEntry.resource_id}
         ELSE expected
    /\ timerFire' = "none"
    /\ UNCHANGED <<store, baseline, isWatching, isFirstWatcherRun,
                   watcherCounters, watcherIdx, watchersInFlight,
                   indexerVars, checkVars>>

\* const project = await this.database.getProject(resource_id): a stored
\* project is notified as restocked, a missing one as unknown.
RunWatcherGetProject ==
    /\ watcherPc = "getProject"
    /\ watcherPc' = IF GetProject(store, WatcherEntry.resource_id) # Null
                    THEN "sendNotification"
                    ELSE "sendUnknownProjectNotification"
    /\ timerFire' = "none"
    /\ UNCHANGED <<store, baseline, isWatching, isFirstWatcherRun,
                   watcherCounters, watcherIdx, watcherPrevious,
                   watchersInFlight, transitions, expected, indexerVars,
                   checkVars>>

\* await this.notifier.sendNotification(project, 'restocked') resolves, or
\* sendUnknownProjectNotification(resource_id, count) does.
RunWatcherNotified ==
    /\ watcherPc \in {"sendNotification", "sendUnknownProjectNotification"}
    /\ watcherPc' = IF watcherPc = "sendNotification"
                    THEN "updateUnitCount"
                    ELSE "ensureProjectExists"
    /\ timerFire' = "none"
    /\ UNCHANGED <<store, baseline, isWatching, isFirstWatcherRun,
                   watcherCounters, watcherIdx, watcherPrevious,
                   watchersInFlight, transitions, expected, indexerVars,
                   checkVars>>

\* await this.database.ensureProjectExists(resource_id) resolves.
RunWatcherEnsure ==
    /\ watcherPc = "ensureProjectExists"
    /\ store' = EnsureProjectExists(store, WatcherEntry.resource_id)
    /\ baseline' = EnsureProjectExists(baseline, WatcherEntry.resource_id)
    /\ watcherPc' = "updateUnitCount"
    /\ timerFire' = "none"
    /\ UNCHANGED <<isWatching, isFirstWatcherRun, watcherCounters, watcherIdx,
                   watcherPrevious, watchersInFlight, transitions, expected,
                   indexerVars, checkVars>>

\* await this.database.updateUnitCount(resource_id, count) resolves: the
\* next entry, or the end of the cycle.
RunWatcherUpdate ==
    /\ watcherPc = "updateUnitCount"
    /\ store' = UpdateUnitCount(store, WatcherEntry.resource_id,
                                WatcherEntry.count)
    /\ IF watcherIdx < Len(watcherCounters)
       THEN /\ watcherIdx' = watcherIdx + 1
            /\ watcherPc' = "getUnitCount"
            /\ watcherPrevious' = Null
            /\ baseline' = UpdateUnitCount(baseline, WatcherEntry.resource_id,
                                           WatcherEntry.count)
            /\ UNCHANGED <<isWatching, watcherCounters, watchersInFlight,
                           transitions, expected>>
       ELSE /\ baseline' = store'
            /\ WatcherReturns
    /\ timerFire' = "none"
    /\ UNCHANGED <<isFirstWatcherRun, indexerVars, checkVars>>

\* Any await of runWatcher rejects: the catch block logs and the finally
\* block clears the flag.
RunWatcherFails ==
    /\ watcherPc # "idle"
    /\ WatcherReturns
    /\ baseline' = store
    /\ timerFire' = "none"
    /\ UNCHANGED <<store, isFirstWatcherRun, indexerVars, checkVars>>

NextHybrid ==
    \/ Initialize
    \/ RunIndexerStart
    \/ RunIndexerSkipped
    \/ RunIndexerFetch
    \/ RunIndexerUpsert
    \/ RunIndexerFails
    \/ RunIndexerCatch
    \/ RunWatcherStart
    \/ RunWatcherSkipped
    \/ RunWatcherFetch
    \/ RunWatcherFirstRun
    \/ RunWatcherRead
    \/ RunWatcherGetProject
    \/ RunWatcherNotified
    \/ RunWatcherEnsure
    \/ RunWatcherUpdate
    \/ RunWatcherFails

SpecHybrid == InitHybrid /\ [][NextHybrid]_vars

\* ----------------------------------------------------------------- claims

\* The last answer of the Validation Lookup for id in this cycle.
LookupOf(id) == lookups[id][Len(lookups[id])]

\* The count the snapshot gives id.
SnapshotHas(id, c) ==
    \E k \in 1 .. Len(counters) :
        counters[k].resource_id = id /\ counters[k].count = c

\* The loop has classified the entry it is at.
Classified ==
    pc \in {"validateProject", "updateRejected", "upsertProjectMetadata",
            "sendNotification", "updateUnitCount"}

\* C1: a resource enters the verification pipeline (Validation Lookup,
\* dispatcher) exactly when its stored count is absent or 0 and its new
\* count is positive; every other pair is NoChange and reaches neither.
C1_TriggerRule ==
    /\ \A id \in ResourceIds :
         /\ verdict[id] = "NoChange" => lookups[id] = <<>> /\ dispatched[id] = <<>>
         /\ verdict[id] \in {"Confirmed", "Rejected"} <=> lookups[id] # <<>>
    /\ Classified =>
         LET id == Entry.resource_id
             row == store[id]
         IN  /\ verdict[id] # "NoChange" <=>
                  /\ previousCount = Null \/ previousCount = Some(0)
                  /\ Entry.count > 0
             /\ verdict[id] \in {"NoChange", "Transition", "Rejected"} =>
                  /\ row = Null <=> previousCount = Null
                  /\ row # Null => previousCount = Some(row[1].available_units_count)

C1_Witness ==
    /\ pc = "validateProject"
    /\ previousCount = Null
    /\ \E id \in ResourceIds :
         /\ verdict[id] = "NoChange"
         /\ store[id] # Null
         /\ store[id][1].available_units_count > 0
         /\ SnapshotHas(id, 1)

\* The script position of the cycle that wrote the cycle log.
CyclePos ==
    IF pc = "idle" /\ outcome \in {"completed", "firstRun"}
    THEN ScriptPos - 1
    ELSE ScriptPos

\* C2: over completed cycles that see [absent, 5, 5, 0, 5] for one resource
\* the resource is Confirmed, and dispatched, only at index 1 and index 4.
C2_NoDuplicateOnPlateau ==
    /\ confirmedAt \subseteq {1, 4}
    /\ dispatched[ScriptedId] # <<>> => CyclePos \in {1, 4}

C2_Witness ==
    /\ confirmedAt = {1, 4}
    /\ script = <<>>
    /\ outcome = "completed"
    /\ dispatched[ScriptedId] # <<>>

C4_ReentrancyGuard ==
    /\ [](inflight <= 1)
    /\ [][lastFire' = "skipped" =>
            /\ isChecking
            /\ UNCHANGED <<isChecking, isFirstRun, store, pc, cycleLocals,
                           inflight, cycleLog, outcome, error, feed>>]_vars
    /\ [][inflight' > inflight => ~isChecking /\ lastFire' = "started"]_vars

C4_Witness == lastFire = "skipped" /\ pc = "sendNotification"

\* C5: after a cycle that no error aborted the stored count of every
\* resource of the snapshot is the snapshot's count, whatever its verdict.
C5_CountReplaced ==
    outcome = "completed" =>
        \A k \in 1 .. Len(counters) :
            /\ store[counters[k].resource_id] # Null
            /\ store[counters[k].resource_id][1].available_units_count
                 = counters[k].count

C5_Witness ==
    /\ outcome = "completed"
    /\ \E a, b \in ResourceIds :
         /\ verdict[a] = "Confirmed"
         /\ dispatched[a] # <<>>
         /\ verdict[b] \in {"Rejected", "NoChange"}

\* The project validateProject makes of a lookup answer that passes.
LookupRecord(id) ==
    [resource_id |-> id,
     project_name |-> LookupOf(id).name,
     available_units_count |-> LookupOf(id).units,
     bookable |-> LookupOf(id).bookable]

\* C6: when the Validation Lookup answers bookable with a positive unit
\* count the verdict is Confirmed, and the project given to the dispatcher
\* and stored as metadata is the lookup's, not the Search API's record and
\* not the counter's count.
C6_LookupRecordWins ==
    \A id \in ResourceIds :
        (lookups[id] # <<>> /\ LookupOf(id).t = "ok") =>
            /\ verdict[id] = "Confirmed"
            /\ \A k \in 1 .. Len(dispatched[id]) :
                  dispatched[id][k] = LookupRecord(id)
            /\ dispatched[id] # <<>> =>
                  /\ store[id] # Null
                  /\ store[id][1].project_name =
                       IF LookupOf(id).name = Undefined THEN SqlNull
                       ELSE LookupOf(id).name

C6_Witness ==
    \E id \in ResourceIds :
        /\ dispatched[id] # <<>>
        /\ searchMap[id] # Null
        /\ searchMap[id][1].available_units_count # LookupOf(id).units
        /\ ~SnapshotHas(id, LookupOf(id).units)
        /\ store[id][1].project_name = "lookup-name"
        /\ outcome = "completed"

\* The Validation Lookup failed for id: the request threw, or the body was
\* malformed.
LookupFailed(id) == lookups[id] # <<>> /\ LookupOf(id).t \in {"error", "nodata"}

C8_Rejection ==
    \A id \in ResourceIds :
        (/\ lookups[id] # <<>>
         /\ \/ LookupOf(id).t = "refuted"
            \/ LookupFailed(id) /\ searchMap[id] = Null) =>
            verdict[id] = "Rejected" /\ dispatched[id] = <<>>

C8_Witness ==
    \E a, b \in ResourceIds :
        /\ lookups[a] # <<>>
        /\ LookupOf(a).t = "refuted"
        /\ LookupFailed(b)
        /\ searchMap[b] = Null
        /\ verdict[a] = "Rejected"
        /\ verdict[b] = "Rejected"
        /\ outcome = "completed"

\* C9: in one cycle the dispatcher is called at most once per resource,
\* and only for a resource Confirmed in that cycle.
C9_OneDispatchPerConfirmed ==
    \A id \in ResourceIds :
        /\ Len(dispatched[id]) <= 1
        /\ dispatched[id] # <<>> => verdict[id] = "Confirmed"

C9_Witness ==
    /\ outcome = "completed"
    /\ \A id \in ResourceIds : Len(dispatched[id]) = 1

\* C10: a cycle whose dispatcher call failed for a resource still ends with
\* the resource's count updated to the snapshot's, after one call.
C10_FailedDispatchStillCounts ==
    \A id \in dispatchFailed :
        (pc = "idle" /\ error \notin {"store", "feed"}) =>
            /\ Len(dispatched[id]) = 1
            /\ store[id] # Null
            /\ SnapshotHas(id, store[id][1].available_units_count)

\* runCheck made no Validation Lookup, no dispatcher call and no verdict.
NothingVerified ==
    \A id \in ResourceIds :
        verdict[id] = "none" /\ lookups[id] = <<>> /\ dispatched[id] = <<>>

\* C11: when the Counter Feed or the Metadata Feed fetch fails, the cycle
\* makes no store call, no Validation Lookup and no dispatch, it ends with
\* the guard cleared, and the next timer fire starts a cycle.
C11_FeedFailureAborts ==
    error = "feed" =>
        /\ storeCalls = <<>>
        /\ NothingVerified
        /\ pc \in {"catch", "idle"}
        /\ pc = "idle" =>
             /\ ~isChecking
             /\ inflight = 0
             /\ outcome = "aborted"
             /\ ENABLED TimerFireStart

C11_Witness ==
    /\ error = "feed"
    /\ pc = "idle"
    /\ ~isFirstRun
    /\ counters # <<>>
    /\ \E id \in ResourceIds : store[id] # Null

\* This cycle's updateUnitCount for id was made and resolved.
CountWritten(id) ==
    \E k \in 1 .. Len(storeCalls) :
        storeCalls[k] = [op |-> "updateUnitCount", id |-> id, ok |-> TRUE]

\* Every resource of the snapshot was classified and its count persisted.
AllProcessed ==
    \A k \in 1 .. Len(counters) :
        LET id == counters[k].resource_id
        IN  /\ verdict[id] # "none"
            /\ CountWritten(id)
            /\ store[id] # Null
            /\ store[id][1].available_units_count = counters[k].count

\* C12: a failed Validation Lookup never sends the cycle to its catch block:
\* unless the store or the dispatcher fails, the cycle runs to its end with
\* every resource of the snapshot classified and its count persisted.
C12_LookupFailureContained ==
    (\E id \in ResourceIds : LookupFailed(id)) =>
        /\ pc = "catch" => error \in {"store", "dispatch"}
        /\ (pc = "idle" /\ error = "none") =>
             outcome = "completed" /\ AllProcessed

C12_Witness ==
    /\ outcome = "completed"
    /\ Len(counters) = 2
    /\ LookupFailed(counters[1].resource_id)
    /\ verdict[counters[2].resource_id] = "Confirmed"
    /\ dispatched[counters[2].resource_id] # <<>>
    /\ CountWritten(counters[2].resource_id)

\* The resource of the database call that failed.
FailedId == storeCalls[Len(storeCalls)].id

\* C13: a cycle in which a database call failed for one resource still
\* persists the count of every other resource of the snapshot.
C13_StoreFailureContained ==
    (pc = "idle" /\ error = "store") =>
        \A k \in 1 .. Len(counters) :
            counters[k].resource_id # FailedId =>
                CountWritten(counters[k].resource_id)

\* C14: updateUnitCount(id, n) made twice in a row leaves the table as the
\* first call left it: counts and metadata of every resource.
C14_UpdateUnitCountIdempotent ==
    \A k \in 1 .. Len(storeTrace) - 1 :
        (/\ storeTrace[k].op = "updateUnitCount"
         /\ storeTrace[k + 1].op = "updateUnitCount"
         /\ storeTrace[k + 1].id = storeTrace[k].id
         /\ storeTrace[k + 1].count = storeTrace[k].count) =>
            storeTrace[k + 1].after = storeTrace[k].after

C14_Witness ==
    /\ Len(storeTrace) >= 2
    /\ storeTrace[1].op = "updateUnitCount"
    /\ storeTrace[2] = [storeTrace[1] EXCEPT !.before = storeTrace[1].after]
    /\ storeTrace[1].count > 0
    /\ storeTrace[1].before[storeTrace[1].id] # Null
    /\ storeTrace[1].before[storeTrace[1].id][1].available_units_count
         # storeTrace[1].count
    /\ storeTrace[1].before[storeTrace[1].id][1].project_name # SqlNull

\* C15: on a stored record upsertProjectMetadata keeps the count and
\* updateUnitCount keeps the metadata; both keep every other record.
C15_MetadataCountIsolation ==
    \A k \in 1 .. Len(storeTrace) :
        LET c == storeTrace[k]
        IN  /\ \A other \in ResourceIds \ {c.id} : c.after[other] = c.before[other]
            /\ c.before[c.id] # Null =>
                  /\ c.after[c.id] # Null
                  /\ c.op = "upsertProjectMetadata" =>
                        c.after[c.id][1].available_units_count
                          = c.before[c.id][1].available_units_count
                  /\ c.op = "updateUnitCount" =>
                        c.after[c.id][1].project_name
                          = c.before[c.id][1].project_name

C15_Witness ==
    /\ Len(storeTrace) >= 2
    /\ storeTrace[1].op = "upsertProjectMetadata"
    /\ storeTrace[2].op = "updateUnitCount"
    /\ storeTrace[2].id = storeTrace[1].id
    /\ LET id == storeTrace[1].id
       IN  /\ storeTrace[1].before[id] # Null
           /\ storeTrace[1].before[id][1].available_units_count > 0
           /\ storeTrace[1].before[id][1].project_name = "search-name"
           /\ storeTrace[1].after[id][1].project_name = "lookup-name"
           /\ storeTrace[2].after[id][1].available_units_count
                # storeTrace[2].before[id][1].available_units_count
           /\ \E other \in ResourceIds \ {id} : store[other] # Null

\* Calls j and k of the trace are an upsertProjectMetadata and an
\* updateUnitCount for one id, made one after the other in either order.
Raced(j, k) ==
    /\ storeTrace[j].op = "upsertProjectMetadata"
    /\ storeTrace[k].op = "updateUnitCount"
    /\ storeTrace[j].id = storeTrace[k].id
    /\ j = k + 1 \/ k = j + 1

\* C16: when an Indexer's upsertProjectMetadata and a Watcher's
\* updateUnitCount for one id run in either order, on a stored or a missing
\* record, the record then holds the count of the one and the metadata of
\* the other.
C16_NeitherWriteLost ==
    \A j, k \in 1 .. Len(storeTrace) :
        Raced(j, k) =>
            LET last == IF j < k THEN storeTrace[k] ELSE storeTrace[j]
                row == last.after[last.id]
            IN  /\ row # Null
                /\ row[1].available_units_count = storeTrace[k].count
                /\ row[1].project_name = Bind(storeTrace[j].name)

C16_Witness ==
    /\ Len(storeTrace) >= 2
    /\ Raced(1, 2)
    /\ storeTrace[1].before[storeTrace[1].id] = Null
    /\ storeTrace[1].name = "search-name"
    /\ storeTrace[2].count > 0

\* C17: provided every awaited call returns or fails, a cycle that has
\* begun ends, on success, on a caught error and on the first-run return
\* alike; the guard flag is set exactly while a cycle is in flight, so that
\* a timer fire with no cycle in flight starts one.
C17_CycleLiveness ==
    /\ []<>(~isChecking /\ pc = "idle")
    /\ [](isChecking <=> pc # "idle")
    /\ [](pc = "idle" => ENABLED TimerFireStart)

C17_Witness ==
    /\ pc = "idle"
    /\ ~isChecking
    /\ outcome = "aborted"
    /\ error = "dispatch"

\* C18: the process releases the store and exits only with no resource
\* half processed (detected, its count not yet updated), and runCheck makes
\* no database call once shutdown has called close.
C18_ShutdownWaitsForCycle ==
    /\ phase = "exited" => ~Classified
    /\ ~lateStoreCall

\* C19: whichever of the feeds, the Validation Lookup, the store and the
\* dispatcher fail, runCheck's promise never rejects: a failed cycle ends in
\* the catch block, with the guard cleared.
C19_NoErrorEscapes ==
    /\ ~escaped
    /\ (pc = "idle" /\ error # "none") =>
          outcome = "aborted" /\ ~isChecking /\ inflight = 0

C19_Witness ==
    /\ pc = "idle"
    /\ error = "store"
    /\ outcome = "aborted"
    /\ \E id \in ResourceIds : LookupFailed(id)
    /\ \E id \in dispatchFailed : ~CountWritten(id)

\* C20: whenever the dispatcher has been called for a resource in a cycle,
\* that cycle's count of the resource is already in the store.
C20_CountBeforeDispatch ==
    \A id \in ResourceIds :
        dispatched[id] # <<>> =>
            /\ CountWritten(id)
            /\ store[id] # Null
            /\ SnapshotHas(id, store[id][1].available_units_count)

\* The Search API snapshot lacks id, or declares no unit for it, or
\* declares it not bookable.
Lagging(id) ==
    \/ searchMap[id] = Null
    \/ searchMap[id][1].available_units_count = 0
    \/ ~searchMap[id][1].bookable

\* C21: a Transition whose resource the Search API snapshot lacks, or
\* declares without units or not bookable, still goes to the Validation
\* Lookup, and is Confirmed whenever the lookup reports bookable with units.
C21_MetadataLagKeepsSignal ==
    \A id \in ResourceIds :
        Lagging(id) =>
            /\ verdict[id] = "Transition" =>
                  pc = "validateProject" /\ Entry.resource_id = id
            /\ verdict[id] = "Rejected" =>
                  lookups[id] # <<>> /\ LookupOf(id).t # "ok"
            /\ (lookups[id] # <<>> /\ LookupOf(id).t = "ok") =>
                  verdict[id] = "Confirmed"

C21_Witness ==
    /\ outcome = "completed"
    /\ \E a, b \in ResourceIds :
         /\ searchMap[a] = Null
         /\ searchMap[b] # Null
         /\ searchMap[b][1].available_units_count = 0
         /\ ~searchMap[b][1].bookable
         /\ verdict[a] = "Confirmed"
         /\ verdict[b] = "Confirmed"
         /\ dispatched[a] # <<>>
         /\ dispatched[b] # <<>>

\* C22: upsertProjectMetadata for a resource without a record leaves its
\* count unknown: getUnitCount still answers null.
C22_UnknownStaysUnknown ==
    \A k \in 1 .. Len(storeTrace) :
        LET c == storeTrace[k]
        IN  (c.op = "upsertProjectMetadata" /\ c.before[c.id] = Null) =>
                GetUnitCount(c.after, c.id) = Null

\* C23: updateUnitCount(id, n) on a missing record makes a record whose
\* count is n and whose metadata is absent; on a stored record it replaces
\* the count by n.
C23_MinimalRecord ==
    \A k \in 1 .. Len(storeTrace) :
        LET c == storeTrace[k]
        IN  c.op = "updateUnitCount" =>
                /\ GetUnitCount(c.after, c.id) = Some(c.count)
                /\ c.before[c.id] = Null =>
                      c.after[c.id][1].project_name = SqlNull

C23_Witness ==
    /\ Len(storeTrace) >= 2
    /\ storeTrace[1].op = "updateUnitCount"
    /\ storeTrace[2].op = "updateUnitCount"
    /\ storeTrace[1].id = storeTrace[2].id
    /\ storeTrace[1].before[storeTrace[1].id] = Null
    /\ storeTrace[1].count > 0
    /\ storeTrace[2].count # storeTrace[1].count
    /\ GetUnitCount(store, storeTrace[2].id) = Some(storeTrace[2].count)

\* C24: whatever the Counters API reports, negative and unparsable values
\* included, every count in the store is a non-negative integer.
C24_StoredCountsNonNegative ==
    \A id \in ResourceIds :
        store[id] # Null => store[id][1].available_units_count >= 0

\* The project_name column of id: NULL too when id has no row.
Meta(st, id) == IF st[id] = Null THEN SqlNull ELSE st[id][1].project_name

\* The cycle has called upsertProjectMetadata for id.
UpsertCalled(id) ==
    \E k \in 1 .. Len(storeCalls) :
        storeCalls[k].op = "upsertProjectMetadata" /\ storeCalls[k].id = id

\* The step is a write of the running cycle that sets the count of id: the
\* count update of the entry at hand, to the snapshot's count, or the
\* metadata insert of a resource without a row, to the column's default.
CycleWritesCount(id, before, after) ==
    /\ Entry.resource_id = id
    /\ \/ /\ pc \in {"firstRunUpdate", "updateRejected", "updateUnitCount"}
          /\ after = Some(Entry.count)
       \/ /\ pc = "upsertProjectMetadata"
          /\ before = Null
          /\ after = Some(DefaultCount)

C28_MetadataOnlyOnConfirmed ==
    /\ [](\A id \in ResourceIds :
            /\ UpsertCalled(id) => verdict[id] = "Confirmed"
            /\ verdict[id] = "Confirmed" =>
                  \/ UpsertCalled(id)
                  \/ pc = "upsertProjectMetadata" /\ Entry.resource_id = id)
    /\ [][\A id \in ResourceIds :
            Meta(store', id) # Meta(store, id) =>
                /\ pc = "upsertProjectMetadata"
                /\ Entry.resource_id = id
                /\ verdict[id] = "Confirmed"]_vars

C28_Witness ==
    /\ outcome = "completed"
    /\ \E a, b \in ResourceIds :
         /\ verdict[a] = "Confirmed"
         /\ UpsertCalled(a)
         /\ Meta(store, a) = "lookup-name"
         /\ verdict[b] \in {"Rejected", "NoChange"}
         /\ ~UpsertCalled(b)
         /\ Meta(store, b) = "lookup-name"

\* C30: a cycle calls fetchSearchAPI once, before it reads or writes the
\* count of any resource and whatever the number of transitions; it calls
\* validateProject once for each Transition and never for a NoChange.
C30_OneSnapshotPerCycle ==
    /\ searchFetches <= 1
    /\ (storeCalls # <<>> \/ \E id \in ResourceIds : verdict[id] # "none") =>
           searchFetches = 1
    /\ (pc = "idle" /\ outcome \in {"completed", "firstRun"}) =>
           searchFetches = 1
    /\ \A id \in ResourceIds :
         /\ Len(lookups[id]) <= 1
         /\ verdict[id] \in {"none", "NoChange"} => lookups[id] = <<>>
         /\ verdict[id] \in {"Confirmed", "Rejected"} => Len(lookups[id]) = 1
         /\ verdict[id] = "Transition" =>
               pc = "validateProject" /\ Entry.resource_id = id

C30_Witness ==
    /\ outcome = "completed"
    /\ searchFetches = 1
    /\ \E a, b \in ResourceIds :
         /\ a # b
         /\ verdict[a] = "Confirmed"
         /\ verdict[b] = "Rejected"
         /\ Len(lookups[a]) = 1
         /\ Len(lookups[b]) = 1

\* C25: the Watcher and the Indexer each have their own Idle/Running state
\* with at most one cycle in flight; a fire of one interval is skipped only
\* when a cycle of the same kind runs, never because of the other kind.
C25_IndependentGuards ==
    /\ isIndexing <=> indexerPc # "idle"
    /\ isWatching <=> watcherPc # "idle"
    /\ indexersInFlight = (IF isIndexing THEN 1 ELSE 0)
    /\ watchersInFlight = (IF isWatching THEN 1 ELSE 0)
    /\ timerFire = "watcherSkipped" => isWatching
    /\ timerFire = "indexerSkipped" => isIndexing
    /\ (scheduled /\ ~isWatching) => ENABLED RunWatcherStart
    /\ (scheduled /\ ~isIndexing) => ENABLED RunIndexerStart

C25_Witness ==
    /\ timerFire = "watcherStarted"
    /\ indexerPc = "upsertProjectMetadata"
    /\ projectIdx = 2
    /\ isWatching
    /\ isIndexing

\* C26: whatever the Indexer upserts while a Watcher cycle runs, the
\* resources the cycle classifies as Transition are those it would classify
\* had the Indexer written nothing during the cycle.
C26_IndexerKeepsTransitions == transitions = expected

C26_Witness ==
    /\ watcherPc = "getProject"
    /\ watcherIdx = 2
    /\ WatcherEntry.resource_id \in transitions
    /\ watcherPrevious = Some(DefaultCount)
    /\ baseline[WatcherEntry.resource_id] = Null
    /\ store[WatcherEntry.resource_id] # Null
    /\ store[watcherCounters[1].resource_id] # baseline[watcherCounters[1].resource_id]

\* C29: shouldNotify answers new_listing for a positive count of a project
\* without a row, restocked for a positive count of a project stored with
\* count 0, and false without a reason in every other case.
C29_ReasonClassification ==
    \A k \in 1 .. Len(storeTrace) :
        LET c == storeTrace[k]
            units == c.project.available_units_count
        IN  c.op = "shouldNotify" =>
              IF c.existing = Null /\ units > 0
              THEN c.result.shouldNotify /\ c.result.reason = "new_listing"
              ELSE IF /\ c.existing # Null
                      /\ c.existing[1].available_units_count = 0
                      /\ units > 0
                   THEN c.result.shouldNotify /\ c.result.reason = "restocked"
                   ELSE ~c.result.shouldNotify /\ c.result.reason = NoReason

C29_Witness ==
    /\ Len(storeTrace) = 2
    /\ storeTrace[1].op = "shouldNotify"
    /\ storeTrace[1].existing = Null
    /\ storeTrace[1].result.reason = "new_listing"
    /\ storeTrace[2].existing # Null
    /\ storeTrace[2].result.shouldNotify
    /\ storeTrace[2].result.reason = "restocked"
    /\ storeTrace[2].result.previousUnits = 0

\* The snapshot has an entry for id.
InSnapshot(id) ==
    \E k \in 1 .. Len(counters) : counters[k].resource_id = id

\* Every count of the snapshot is in the table st, written by a call the
\* log has.
BaselineWritten(st, log) ==
    \A k \in 1 .. Len(counters) :
        /\ GetUnitCount(st, counters[k].resource_id) = Some(counters[k].count)
        /\ \E j \in 1 .. Len(log) :
              log[j] = [op |-> "updateUnitCount",
                        id |-> counters[k].resource_id, ok |-> TRUE]

\* C34: while isFirstRun is set a cycle only writes counts: no lookup, no
\* dispatch; the flag is cleared only by the step that ends a cycle which
\* fetched both feeds and wrote every count of its snapshot, so a failed
\* first cycle leaves it set; once cleared it stays cleared.
C34_FirstRunClearsAfterBaseline ==
    /\ [](isFirstRun =>
            /\ NothingVerified
            /\ pc \in {"idle", "fetchCounters", "fetchSearch", "firstRunUpdate",
                       "catch"})
    /\ [][(isFirstRun /\ ~isFirstRun') =>
            /\ pc \in {"fetchSearch", "firstRunUpdate"}
            /\ pc' = "idle"
            /\ outcome' = "firstRun"
            /\ searchFetches = 1
            /\ BaselineWritten(store', storeCalls')]_vars
    /\ [][~isFirstRun => ~isFirstRun']_vars

C34_Witness ==
    /\ isFirstRun
    /\ pc = "idle"
    /\ outcome = "aborted"
    /\ error = "store"
    /\ Len(counters) = 2
    /\ CountWritten(counters[1].resource_id)
    /\ GetUnitCount(store, counters[1].resource_id) = Some(MaxCount)
    /\ store[counters[2].resource_id] = Null

\* C35: a step of a cycle changes the row of the snapshot entry it is at
\* and no other row, so a resource the snapshot lacks keeps count and
\* metadata; no step deletes a row.
C35_WatcherFrame ==
    [][\A id \in ResourceIds :
          /\ store'[id] # store[id] =>
                /\ pc \in StorePcs
                /\ InSnapshot(id)
                /\ Entry.resource_id = id
          /\ store[id] # Null => store'[id] # Null]_vars

C35_Witness ==
    /\ pc = "idle"
    /\ outcome = "completed"
    /\ \E a, b \in ResourceIds :
         /\ InSnapshot(a)
         /\ CountWritten(a)
         /\ ~InSnapshot(b)
         /\ store[b] # Null
         /\ store[b][1].available_units_count = MaxCount
         /\ store[b][1].project_name = "lookup-name"

\* C36: every step of a cycle that reads the Search API snapshot does what it would do
\* with any other snapshot: the same next await after a trigger, the same
\* row written by upsertProjectMetadata, the same project given to
\* sendNotification.  Two cycles that differ in the snapshot only therefore
\* go through the same steps to the same store and the same dispatches.
C36_SnapshotIndependence ==
    [][\A m \in SearchMaps :
          /\ (pc = "getUnitCount"
              /\ pc' \notin {pc, "catch", "updateUnitCount"}) =>
                pc' = AfterSearchData(m[Entry.resource_id])
          /\ (pc = "upsertProjectMetadata" /\ pc' \notin {pc, "catch"}) =>
                store' = UpsertProjectMetadata(store,
                            NotificationPayload(validatedProject[1],
                                                m[Entry.resource_id],
                                                Entry.count))
          /\ (pc = "sendNotification" /\ pc' # pc) =>
                dispatched'[Entry.resource_id] =
                    Append(dispatched[Entry.resource_id],
                           NotificationPayload(validatedProject[1],
                                               m[Entry.resource_id],
                                               Entry.count))]_vars

C36_Witness ==
    /\ pc = "idle"
    /\ outcome = "completed"
    /\ \E a \in ResourceIds :
         /\ verdict[a] = "Confirmed"
         /\ searchMap[a] # Null
         /\ searchMap[a][1].available_units_count = 0
         /\ ~searchMap[a][1].bookable
         /\ Len(dispatched[a]) = 1
         /\ dispatched[a][1].project_name = "lookup-name"
         /\ dispatched[a][1].available_units_count = MaxCount
         /\ Meta(store, a) = "lookup-name"

\* C31: no resource is given to the dispatcher a second time unless a
\* count 0 was written for it since the first time.
C31_ZeroBetweenAlerts ==
    \A id \in ResourceIds : "dispatchedTwice" \notin sinceZero[id]

\* C32: once the positive count of a rejected Transition is written, the
\* stored count is positive and, until a count 0 is written for the
\* resource, it gets no further Validation Lookup and no dispatch.
C32_RejectedEdgeConsumed ==
    \A id \in ResourceIds :
        "rejected" \in sinceZero[id] =>
            /\ GetUnitCount(store, id) \notin {Null, Some(0)}
            /\ "lookupAfterRejected" \notin sinceZero[id]
            /\ "dispatchedAfterRejected" \notin sinceZero[id]

C32_Witness ==
    /\ pc = "idle"
    /\ outcome = "completed"
    /\ \E id \in ResourceIds :
         /\ "rejected" \in sinceZero[id]
         /\ verdict[id] = "NoChange"
         /\ lookups[id] = <<>>
         /\ SnapshotHas(id, MaxCount)

\* C33: the first cycle after a start dispatches nothing, whatever the
\* table holds; a resource stored with count 0 to which that cycle wrote a
\* positive count has a positive stored count and is not dispatched until
\* a count 0 is written for it.
C33_RestartSuppression ==
    /\ isFirstRun => NothingVerified
    /\ \A id \in ResourceIds :
         "suppressed" \in sinceZero[id] =>
             /\ GetUnitCount(store, id) \notin {Null, Some(0)}
             /\ "dispatchedAfterSuppressed" \notin sinceZero[id]

C33_Witness ==
    /\ pc = "idle"
    /\ outcome = "completed"
    /\ ~isFirstRun
    /\ \E id \in ResourceIds :
         /\ "suppressed" \in sinceZero[id]
         /\ verdict[id] = "NoChange"
         /\ dispatched[id] = <<>>
         /\ SnapshotHas(id, MaxCount)

====
